---- MODULE Spec2Model ----
(***************************************************************************)
(* Model of atmafra/audio-source-separator: the separator abstraction      *)
(* (src/audio_separators.py) and the entry point (src/main.py).            *)
(*                                                                         *)
(* Python strings are sequences of one-character strings, so that          *)
(* os.path.basename / splitext / join are computed as posixpath computes   *)
(* them.  The filesystem is a function from resolved paths (sequences of   *)
(* components) to entries.                                                 *)
(***************************************************************************)
EXTENDS Integers, Sequences, FiniteSets, TLC

VARIABLES fs, heap, pc, fr, log, trace, raised, exit, prev, ncalls

vars == <<fs, heap, pc, fr, log, trace, raised, exit, prev, ncalls>>

(* ------------------------------ bounds -------------------------------- *)

\* number of entry-point runs / separate invocations in one behaviour
MaxCalls == 2

(* ------------------------------ strings ------------------------------- *)

Sep == "/"
ExtSep == "."
Empty == << >>

Spleeter == <<"s","p","l","e","e","t","e","r">>
Demucs == <<"d","e","m","u","c","s">>
Umx == <<"u","m","x">>

Spleeter5stems == <<"s","p","l","e","e","t","e","r",":","5","s","t","e","m","s">>
Htdemucs == <<"h","t","d","e","m","u","c","s">>
Mdx == <<"m","d","x">>

OutputStemsPrefix == <<"o","u","t","p","u","t","_","s","t","e","m","s","/">>
DotWav == <<".","w","a","v">>

Vocals == <<"v","o","c","a","l","s">>
Drums == <<"d","r","u","m","s">>
Bass == <<"b","a","s","s">>
Piano == <<"p","i","a","n","o">>
Other == <<"o","t","h","e","r">>

SongMp3 == <<"s","o","n","g",".","m","p","3">>
InSongWav == <<"i","n","/","s","o","n","g",".","w","a","v">>
InDRaw == <<"i","n",".","d","/",".","r","a","w">>
GoneMp3 == <<"g","o","n","e",".","m","p","3">>

Out == <<"o","u","t">>
Busy == <<"b","u","s","y">>
Old == <<"o","l","d">>

Max(S) == CHOOSE x \in S : \A y \in S : y <= x

(* ------------------------- os.path (posixpath) ------------------------ *)

\* str.rfind, shifted to 1-based positions: 0 when the character is absent
RFind(s, c) ==
    LET I == {i \in 1..Len(s) : s[i] = c}
    IN  IF I = {} THEN 0 ELSE Max(I)

\* posixpath.basename: i = p.rfind('/') + 1; return p[i:]
Basename(p) == SubSeq(p, RFind(p, Sep) + 1, Len(p))

\* genericpath._splitext: the last dot after the last separator splits the
\* name, unless only dots precede it in the file name
Splitext(p) ==
    LET sepIndex == RFind(p, Sep)
        dotIndex == RFind(p, ExtSep)
    IN  IF /\ dotIndex > sepIndex
           /\ \E k \in (sepIndex + 1)..(dotIndex - 1) : p[k] # ExtSep
        THEN <<SubSeq(p, 1, dotIndex - 1), SubSeq(p, dotIndex, Len(p))>>
        ELSE <<p, Empty>>

\* one round of posixpath.join's loop
Join2(path, b) ==
    IF Len(b) > 0 /\ b[1] = Sep THEN b
    ELSE IF Len(path) = 0 \/ path[Len(path)] = Sep THEN path \o b
    ELSE path \o <<Sep>> \o b

\* posixpath.join(a, *p)
RECURSIVE Join(_, _)
Join(a, p) == IF p = << >> THEN a ELSE Join(Join2(a, Head(p)), Tail(p))

\* the components of a path string, as the kernel's lookup walks them
RECURSIVE Split(_)
Split(p) ==
    IF p = Empty THEN << >>
    ELSE LET I == {i \in 1..Len(p) : p[i] = Sep}
         IN  IF I = {} THEN <<p>>
             ELSE LET k == CHOOSE i \in I : \A j \in I : i <= j
                      rest == Split(SubSeq(p, k + 1, Len(p)))
                  IN  IF k = 1 THEN rest ELSE <<SubSeq(p, 1, k - 1)>> \o rest

Root == <<Sep>>

Resolve(p) ==
    IF Len(p) > 0 /\ p[1] = Sep THEN <<Root>> \o Split(p) ELSE Split(p)

Parent(c) == SubSeq(c, 1, Len(c) - 1)

(* ------------------------------ filesystem ---------------------------- *)

DirEntry == [kind |-> "dir", data |-> << >>]
FileEntry(d) == [kind |-> "file", data |-> d]

IsDir(f, c) == c = << >> \/ (c \in DOMAIN f /\ f[c].kind = "dir")

\* os.path.exists: os.stat succeeds
Exists(f, p) ==
    LET c == Resolve(p)
    IN  /\ p # Empty
        /\ c \in DOMAIN f \/ c = << >>
        /\ (p[Len(p)] = Sep) => IsDir(f, c)

\* os.mkdir on a resolved path
Mkdir(f, c) ==
    IF c \in DOMAIN f THEN [fs |-> f, exc |-> "FileExistsError"]
    ELSE IF Parent(c) # << >> /\ Parent(c) \notin DOMAIN f
    THEN [fs |-> f, exc |-> "FileNotFoundError"]
    ELSE IF ~IsDir(f, Parent(c)) THEN [fs |-> f, exc |-> "NotADirectoryError"]
    ELSE [fs |-> (c :> DirEntry) @@ f, exc |-> "none"]

\* os.makedirs(name) with exist_ok=False, on the resolved path
RECURSIVE MakedirsAt(_, _)
MakedirsAt(f, c) ==
    LET head == Parent(c)
    IN  IF head # << >> /\ head \notin DOMAIN f
        THEN LET r == MakedirsAt(f, head)
             IN  IF r.exc \notin {"none", "FileExistsError"} THEN r
                 ELSE Mkdir(r.fs, c)
        ELSE Mkdir(f, c)

Makedirs(f, name) ==
    IF name = Empty THEN [fs |-> f, exc |-> "FileNotFoundError"]
    ELSE MakedirsAt(f, Resolve(name))

\* opening a file for writing and writing d to it (truncates what was there)
WriteFile(f, p, d) ==
    LET c == Resolve(p)
    IN  IF c = << >> \/ (c \in DOMAIN f /\ f[c].kind = "dir")
        THEN [fs |-> f, exc |-> "IsADirectoryError"]
        ELSE IF Parent(c) # << >> /\ Parent(c) \notin DOMAIN f
        THEN [fs |-> f, exc |-> "FileNotFoundError"]
        ELSE IF ~IsDir(f, Parent(c))
        THEN [fs |-> f, exc |-> "NotADirectoryError"]
        ELSE [fs |-> (c :> FileEntry(d)) @@ f, exc |-> "none"]

(* ------------------------------ exceptions ---------------------------- *)

\* the builtin exception hierarchy (IOError is an alias of OSError)
ExcParent ==
    [e \in {"BaseException", "Exception", "KeyboardInterrupt", "RuntimeError",
            "NotImplementedError", "ValueError", "UnicodeError", "OSError",
            "FileNotFoundError", "FileExistsError", "NotADirectoryError",
            "IsADirectoryError", "PermissionError", "LookupError", "KeyError",
            "MemoryError"} |->
        CASE e = "BaseException" -> "object"
          [] e \in {"Exception", "KeyboardInterrupt"} -> "BaseException"
          [] e = "NotImplementedError" -> "RuntimeError"
          [] e = "UnicodeError" -> "ValueError"
          [] e \in {"FileNotFoundError", "FileExistsError", "NotADirectoryError",
                    "IsADirectoryError", "PermissionError"} -> "OSError"
          [] e = "KeyError" -> "LookupError"
          [] OTHER -> "Exception"]

RECURSIVE IsInstance(_, _)
IsInstance(e, cls) ==
    \/ e = cls
    \/ /\ e \in DOMAIN ExcParent
       /\ IsInstance(ExcParent[e], cls)

\* the clause with the I/O category forgotten
DemucsHandles_noio(e) ==
    \/ IsInstance(e, "RuntimeError")
    \/ IsInstance(e, "ValueError")

\* the clause widened to except Exception
DemucsHandles_all(e) == IsInstance(e, "Exception")

\* except (RuntimeError, ValueError, IOError)
DemucsHandles(e) ==
    \/ IsInstance(e, "RuntimeError")
    \/ IsInstance(e, "ValueError")
    \/ IsInstance(e, "OSError")

\* what the wrapped libraries, torch and the operating system may raise
FaultClasses ==
    {"RuntimeError", "ValueError", "PermissionError", "KeyError",
     "KeyboardInterrupt"}

(* ------------------------- classes and factory ------------------------ *)

\* the field default of each config class
DefaultModelName(cls) ==
    CASE cls = "SpleeterConfig" -> Spleeter5stems
      [] cls = "DemucsConfig" -> Htdemucs

\* the table with the two config classes exchanged
separator_factory_crossed ==
    (Spleeter :> <<"SpleeterAudioSeparator", "DemucsConfig">>)
    @@ (Demucs :> <<"DemucsAudioSeparator", "SpleeterConfig">>)

\* separator_factory: tool -> <<SeparatorClass, ConfigClass>>
separator_factory ==
    (Spleeter :> <<"SpleeterAudioSeparator", "SpleeterConfig">>)
    @@ (Demucs :> <<"DemucsAudioSeparator", "DemucsConfig">>)

\* ConfigClass(model_name=m)
NewConfig(cls, m) == [cls |-> cls, model_name |-> m, config |-> 0]

\* SeparatorClass(config=c): AudioSeparator.__init__ stores the config
NewSeparator(cls, c) == [cls |-> cls, model_name |-> Empty, config |-> c]

\* self.config.model_name
ModelName(h, self) == h[h[self].config].model_name

\* the identity of the next object allocated
Alloc(h) == Len(h) + 1

\* specific_config = ConfigClass(...); SeparatorClass(config=specific_config)
Construct(h, classes, m) ==
    LET c == Alloc(h)
    IN  h \o <<NewConfig(classes[2], m), NewSeparator(classes[1], c)>>

(* ------------------------- the wrapped backends ----------------------- *)

\* the instruments of the spleeter preset
Instruments(m) == <<Vocals, Piano, Drums, Bass, Other>>

\* the stem mappings separate_audio_file may return, in iteration order
StemSets == {<<Vocals, Drums>>, <<Drums, Bass, Vocals>>}

\* demucs_instance.samplerate
SampleRateOf(m) == IF m = Htdemucs THEN 44100 ELSE 48000

\* the audio a deterministic backend produces for one stem
StemAudio(input, m, stem) == <<input, m, stem, SampleRateOf(m)>>

StaleAudio == <<Empty, Empty, Empty, 0>>

\* spleeter's separate_to_file: <destination>/<filename>/<instrument>.wav
RECURSIVE LibSave(_, _, _, _, _)
LibSave(f, dir, names, input, m) ==
    IF names = << >> THEN [fs |-> f, exc |-> "none"]
    ELSE LET r == WriteFile(f, Join(dir, <<Head(names) \o DotWav>>),
                            StemAudio(input, m, Head(names)))
         IN  IF r.exc # "none" THEN r
             ELSE LibSave(r.fs, dir, Tail(names), input, m)

SeparateToFile(f, input, dest, m) ==
    LET dir == Join(dest, <<Splitext(Basename(input))[1]>>)
        r == IF Exists(f, dir) THEN [fs |-> f, exc |-> "none"]
             ELSE Makedirs(f, dir)
    IN  IF r.exc # "none" THEN r
        ELSE LibSave(r.fs, dir, Instruments(m), input, m)

(* ------------------------------ the state ----------------------------- *)

Tools == {Spleeter, Demucs, Umx}
InputPaths == {SongMp3, InSongWav, InDRaw, GoneMp3}
\* main's input_audio_file is one fixed path, which is there or is not
MainInputs == {SongMp3, GoneMp3}
OutputFolders == {Out, Busy, Old}
Models == {<<Spleeter, Spleeter5stems>>, <<Demucs, Mdx>>}

At(p) == Resolve(p)

InitFs ==
    (At(SongMp3) :> FileEntry(StaleAudio))
    @@ (At(<<"i","n">>) :> DirEntry)
    @@ (At(InSongWav) :> FileEntry(StaleAudio))
    @@ (At(<<"i","n",".","d">>) :> DirEntry)
    @@ (At(InDRaw) :> FileEntry(StaleAudio))
    @@ (At(Busy) :> FileEntry(StaleAudio))
    @@ (At(Old) :> DirEntry)
    @@ (At(Join(Old, <<Mdx>>)) :> DirEntry)
    @@ (At(Join(Old, <<Mdx, <<"s","o","n","g">> >>)) :> DirEntry)
    @@ (At(Join(Old, <<Mdx, <<"s","o","n","g">>, Vocals \o DotWav>>))
            :> FileEntry(StaleAudio))
    @@ (At(Join(Old, <<Mdx, <<".","r","a","w">> >>)) :> FileEntry(StaleAudio))

NoFrame ==
    [via |-> "none", tool |-> Empty, self |-> 0, input |-> Empty,
     output |-> Empty, device |-> "", inst |-> FALSE, sources |-> << >>,
     song |-> Empty, i |-> 0, exc |-> "none", injected |-> FALSE,
     saved |-> {}, fs0 |-> << >>, h0 |-> 0]

NoPrev ==
    [valid |-> FALSE, cls |-> "", model |-> Empty, input |-> Empty,
     output |-> Empty, sources |-> << >>, clean |-> FALSE, fs |-> << >>]

Init ==
    /\ fs = InitFs
    /\ heap = << >>
    /\ pc = "idle"
    /\ fr = NoFrame
    /\ log = << >>
    /\ trace = << >>
    /\ raised = "none"
    /\ exit = -1
    /\ prev = NoPrev
    /\ ncalls = 0

Info(msg, arg) == [level |-> "info", msg |-> msg, arg |-> arg, exc |-> "none"]
Error(msg, arg, e) == [level |-> "error", msg |-> msg, arg |-> arg, exc |-> e]
Ev(op, arg) == [op |-> op, arg |-> arg]

\* the two progress lines of the waveform variant: logger.info in
\* audio_separators.py, print in the copy of the class that main.py runs
Say(via, msg, arg) ==
    IF via = "main" THEN [level |-> "print", msg |-> msg, arg |-> arg, exc |-> "none"]
    ELSE Info(msg, arg)

Self == heap[fr.self]
Model == ModelName(heap, fr.self)

\* the call ran to its final "separation complete" line (log holds what the
\* call logged and printed, in order)
Completed ==
    /\ pc = "done"
    /\ log # << >>
    /\ log[Len(log)].msg \in {"Spleeter separation complete",
                              "Demucs separation complete"}

\* what a call that ran to completion leaves for the next one to be compared with
Summary ==
    IF Completed
    THEN [valid |-> TRUE, cls |-> Self.cls, model |-> Model, input |-> fr.input,
          output |-> fr.output, sources |-> fr.sources, clean |-> TRUE,
          fs |-> fs]
    ELSE NoPrev

\* the interpreter's exit status once main() returns or an exception escapes it
ExitStatus(via, e) ==
    IF via = "main" THEN (IF e = "none" THEN 0 ELSE 1) ELSE -1

\* separate returns (e = "none") or lets e escape to its caller
Return(e) ==
    /\ pc' = "done"
    /\ raised' = e
    /\ exit' = ExitStatus(fr.via, e)

Fresh == pc \in {"idle", "done"} /\ ncalls < MaxCalls

(* ------------------------------ entry point --------------------------- *)

\* main(), up to the factory table: the tool and the input file are the run's
\* inputs; default_output = f"output_stems/{separation_tool}"
MainBegin ==
    \E tool \in Tools, input \in MainInputs :
        /\ Fresh
        /\ prev' = Summary
        /\ fr' = [NoFrame EXCEPT !.via = "main", !.tool = tool, !.input = input,
                                 !.output = OutputStemsPrefix \o tool, !.fs0 = fs,
                                 !.h0 = Len(heap)]
        /\ log' = <<Info("Input audio file", input)>>
        /\ trace' = << >>
        /\ raised' = "none"
        /\ exit' = -1
        /\ ncalls' = ncalls + 1
        /\ pc' = "main_lookup"
        /\ UNCHANGED <<fs, heap>>

\* if separation_tool not in separator_factory: logger.error(...); return
MainReject ==
    /\ pc = "main_lookup"
    /\ fr.tool \notin DOMAIN separator_factory
    /\ log' = Append(log, Error("Unsupported separation tool", fr.tool, "none"))
    /\ Return("none")
    /\ UNCHANGED <<fs, heap, fr, trace, prev, ncalls>>

\* SeparatorClass, ConfigClass = separator_factory[separation_tool]; both are
\* constructed and separate(input_audio_file, default_output) is entered
MainSelect ==
    /\ pc = "main_lookup"
    /\ fr.tool \in DOMAIN separator_factory
    /\ LET classes == separator_factory[fr.tool]
       IN  heap' = Construct(heap, classes, DefaultModelName(classes[2]))
    /\ fr' = [fr EXCEPT !.self = Len(heap')]
    /\ pc' = "sep_check"
    /\ UNCHANGED <<fs, log, trace, raised, exit, prev, ncalls>>

\* a caller of the library: a separator of either class, configured with a
\* model name, and separate(input, output) entered on it
Invoke ==
    \E tm \in Models, input \in InputPaths, output \in OutputFolders :
        /\ Fresh
        /\ prev' = Summary
        /\ heap' = Construct(heap, separator_factory[tm[1]], tm[2])
        /\ fr' = [NoFrame EXCEPT !.via = "api", !.self = Len(heap'),
                                 !.input = input, !.output = output, !.fs0 = fs,
                                 !.h0 = Len(heap)]
        /\ log' = << >>
        /\ trace' = << >>
        /\ raised' = "none"
        /\ exit' = -1
        /\ ncalls' = ncalls + 1
        /\ pc' = "sep_check"
        /\ UNCHANGED fs

(* ------------------------------ separate ------------------------------ *)

\* the check with its early return lost: every path passes
check_input_file_always(f, input_audio_path) == TRUE

\* AudioSeparator._check_input_file
check_input_file(f, input_audio_path) == Exists(f, input_audio_path)

Using(cls) ==
    IF cls = "SpleeterAudioSeparator" THEN "Using Spleeter"
    ELSE "Using Demucs library"

FirstStep(cls) ==
    IF cls = "SpleeterAudioSeparator" THEN "sp_makedirs" ELSE "dm_device"

\* both variants: the banner line, then the existence check and early return
SepCheck ==
    /\ pc = "sep_check"
    /\ trace' = Append(trace, Ev("exists", fr.input))
    /\ IF check_input_file(fs, fr.input)
       THEN /\ log' = Append(log, Info(Using(Self.cls), Model))
            /\ pc' = FirstStep(Self.cls)
            /\ UNCHANGED <<raised, exit>>
       ELSE /\ log' = log \o <<Info(Using(Self.cls), Model),
                               Error("Input audio file not found", fr.input, "none")>>
            /\ Return("none")
    /\ UNCHANGED <<fs, heap, fr, prev, ncalls>>

\* os.makedirs called without the os.path.exists test in front of it
EnsureDir_unguarded(f, d) ==
    LET r == Makedirs(f, d)
    IN  [fs |-> r.fs, exc |-> r.exc, made |-> r.exc = "none"]

\* the directory step left out
EnsureDir_skipped(f, d) == [fs |-> f, exc |-> "none", made |-> FALSE]

\* if not os.path.exists(d): os.makedirs(d); logger.info("Created ...")
EnsureDir(f, d) ==
    IF Exists(f, d) THEN [fs |-> f, exc |-> "none", made |-> FALSE]
    ELSE LET r == Makedirs(f, d)
         IN  [fs |-> r.fs, exc |-> r.exc, made |-> r.exc = "none"]

(* ---- SpleeterAudioSeparator.separate ---- *)

\* nothing in this variant catches: an exception e leaves separate at once
Propagate(e, f) ==
    /\ fr' = f
    /\ Return(e)

SpMakedirs ==
    /\ pc = "sp_makedirs"
    /\ \/ LET r == EnsureDir(fs, fr.output)
          IN  /\ trace' = IF Exists(fs, fr.output) THEN trace
                          ELSE Append(trace, Ev("makedirs", fr.output))
              /\ fs' = r.fs
              /\ IF r.exc = "none"
                 THEN /\ log' = IF r.made
                                THEN Append(log, Info("Created output directory", fr.output))
                                ELSE log
                      /\ pc' = "sp_construct"
                      /\ UNCHANGED <<fr, raised, exit>>
                 ELSE /\ Propagate(r.exc, [fr EXCEPT !.exc = r.exc])
                      /\ UNCHANGED log
       \/ \E e \in FaultClasses :
              /\ ~Exists(fs, fr.output)
              /\ trace' = Append(trace, Ev("makedirs", fr.output))
              /\ Propagate(e, [fr EXCEPT !.exc = e, !.injected = TRUE])
              /\ UNCHANGED <<fs, log>>
    /\ UNCHANGED <<heap, prev, ncalls>>

\* from spleeter.separator import Separator; Separator(self.config.model_name)
SpConstruct ==
    /\ pc = "sp_construct"
    /\ trace' = Append(trace, Ev("construct", Model))
    /\ \/ /\ fr' = [fr EXCEPT !.inst = TRUE]
          /\ pc' = "sp_run"
          /\ UNCHANGED <<raised, exit>>
       \/ \E e \in FaultClasses :
              Propagate(e, [fr EXCEPT !.exc = e, !.injected = TRUE])
    /\ UNCHANGED <<fs, heap, log, prev, ncalls>>

\* spleeter_instance.separate_to_file(input_audio_path, output_audio_folder)
SpRun ==
    /\ pc = "sp_run"
    /\ trace' = Append(trace, Ev("separate_to_file", fr.output))
    /\ \/ LET r == SeparateToFile(fs, fr.input, fr.output, Model)
          IN  /\ fs' = r.fs
              /\ IF r.exc = "none"
                 THEN /\ log' = log \o <<Info("Processing", fr.input),
                                         Info("Spleeter separation complete", fr.output)>>
                      /\ Return("none")
                      /\ UNCHANGED fr
                 ELSE /\ log' = Append(log, Info("Processing", fr.input))
                      /\ Propagate(r.exc, [fr EXCEPT !.exc = r.exc])
       \/ \E e \in FaultClasses :
              /\ log' = Append(log, Info("Processing", fr.input))
              /\ Propagate(e, [fr EXCEPT !.exc = e, !.injected = TRUE])
              /\ UNCHANGED fs
    /\ UNCHANGED <<heap, prev, ncalls>>

(* ---- DemucsAudioSeparator.separate ---- *)

\* an exception e raised inside the try block, the log being lg: the clause
\* except (RuntimeError, ValueError, IOError) logs it and separate returns;
\* any other exception leaves separate
Raise(e, lg, f) ==
    /\ fr' = f
    /\ IF DemucsHandles(e)
       THEN /\ log' = Append(lg, Error("Error during Demucs library processing",
                                       Empty, e))
            /\ Return("none")
       ELSE /\ log' = lg
            /\ Return(e)

\* device = "cuda" if torch.cuda.is_available() else "cpu"
DmDevice ==
    /\ pc = "dm_device"
    /\ trace' = Append(trace, Ev("cuda", Empty))
    /\ \/ \E cuda \in BOOLEAN :
              /\ fr' = [fr EXCEPT !.device = IF cuda THEN "cuda" ELSE "cpu"]
              /\ log' = Append(log, Info("Demucs will use device", Empty))
              /\ pc' = "dm_construct"
              /\ UNCHANGED <<raised, exit>>
       \/ \E e \in FaultClasses :
              Raise(e, log, [fr EXCEPT !.exc = e, !.injected = TRUE])
    /\ UNCHANGED <<fs, heap, prev, ncalls>>

\* DemucsSeparator(model=self.config.model_name, device=device); the local
\* device is not read again
DmConstruct ==
    /\ pc = "dm_construct"
    /\ trace' = Append(trace, Ev("construct", Model))
    /\ \/ /\ fr' = [fr EXCEPT !.inst = TRUE, !.device = ""]
          /\ pc' = "dm_infer"
          /\ UNCHANGED <<log, raised, exit>>
       \/ \E e \in FaultClasses :
              Raise(e, log, [fr EXCEPT !.exc = e, !.device = "", !.injected = TRUE])
    /\ UNCHANGED <<fs, heap, prev, ncalls>>

\* _, separated_sources = demucs_instance.separate_audio_file(Path(input))
DmInfer ==
    /\ pc = "dm_infer"
    /\ trace' = Append(trace, Ev("separate_audio_file", fr.input))
    /\ \/ \E ss \in StemSets :
              /\ fr' = [fr EXCEPT !.sources = ss]
              /\ log' = Append(log, Say(fr.via, "Processing", fr.input))
              /\ pc' = "dm_makedirs"
              /\ UNCHANGED <<raised, exit>>
       \/ \E e \in FaultClasses :
              Raise(e, Append(log, Say(fr.via, "Processing", fr.input)),
                    [fr EXCEPT !.exc = e, !.injected = TRUE])
    /\ UNCHANGED <<fs, heap, prev, ncalls>>

\* the path with the extension left on the file name
OutputPathForSong_keepext(output, m, input) ==
    Join(output, <<m, Basename(input)>>)

\* os.path.join(output_audio_folder, model_name, splitext(basename(input))[0])
OutputPathForSong(output, m, input) ==
    Join(output, <<m, Splitext(Basename(input))[1]>>)

\* the output path is computed and the directory made if it does not exist
DmMakedirs ==
    /\ pc = "dm_makedirs"
    /\ LET song == OutputPathForSong(fr.output, Model, fr.input)
       IN  \/ LET r == EnsureDir(fs, song)
              IN  /\ trace' = IF Exists(fs, song) THEN trace
                              ELSE Append(trace, Ev("makedirs", song))
                  /\ fs' = r.fs
                  /\ IF r.exc = "none"
                     THEN /\ log' = IF r.made
                                    THEN Append(log, Info("Created output directory", song))
                                    ELSE log
                          /\ fr' = [fr EXCEPT !.song = song, !.i = 1]
                          /\ pc' = "dm_save"
                          /\ UNCHANGED <<raised, exit>>
                     ELSE Raise(r.exc, log, [fr EXCEPT !.song = song, !.exc = r.exc])
           \/ \E e \in FaultClasses :
                  /\ ~Exists(fs, song)
                  /\ trace' = Append(trace, Ev("makedirs", song))
                  /\ Raise(e, log, [fr EXCEPT !.song = song, !.exc = e,
                                               !.injected = TRUE])
                  /\ UNCHANGED fs
    /\ UNCHANGED <<heap, prev, ncalls>>

\* os.path.join(output_path_for_song, f"{stem_name}.wav")
StemOutputPath(song, stem_name) == Join(song, <<stem_name \o DotWav>>)

\* demucs.audio.save_audio(stem_tensor, stem_output_path, samplerate=...)
save_audio(f, wav, path) == WriteFile(f, path, wav)

\* one round of the loop over separated_sources.items()
DmSave ==
    /\ pc = "dm_save"
    /\ fr.i <= Len(fr.sources)
    /\ LET stem == fr.sources[fr.i]
           path == StemOutputPath(fr.song, stem)
       IN  /\ trace' = Append(trace, Ev("save_audio", path))
           /\ \/ LET r == save_audio(fs, StemAudio(fr.input, Model, stem), path)
                 IN  /\ fs' = r.fs
                     /\ IF r.exc = "none"
                        THEN /\ log' = Append(log, Info("Saved", path))
                             /\ fr' = [fr EXCEPT !.i = fr.i + 1,
                                                  !.saved = @ \cup {Resolve(path)}]
                             /\ pc' = "dm_save"
                             /\ UNCHANGED <<raised, exit>>
                        ELSE Raise(r.exc, log, [fr EXCEPT !.exc = r.exc])
              \/ \E e \in FaultClasses :
                     /\ Raise(e, log, [fr EXCEPT !.exc = e, !.injected = TRUE])
                     /\ UNCHANGED fs
    /\ UNCHANGED <<heap, prev, ncalls>>

\* the loop is exhausted: the closing line, and separate returns
DmComplete ==
    /\ pc = "dm_save"
    /\ fr.i > Len(fr.sources)
    /\ log' = Append(log, Say(fr.via, "Demucs separation complete", fr.song))
    /\ Return("none")
    /\ UNCHANGED <<fs, heap, fr, trace, prev, ncalls>>

Next ==
    \/ MainBegin
    \/ MainReject
    \/ MainSelect
    \/ Invoke
    \/ SepCheck
    \/ SpMakedirs
    \/ SpConstruct
    \/ SpRun
    \/ DmDevice
    \/ DmConstruct
    \/ DmInfer
    \/ DmMakedirs
    \/ DmSave
    \/ DmComplete

Spec == Init /\ [][Next]_vars

(* ------------------------------ properties ---------------------------- *)

Ops == {trace[i].op : i \in DOMAIN trace}
BackendOps == {"makedirs", "cuda", "construct", "separate_to_file",
               "separate_audio_file", "save_audio"}
IsSpleeter == fr.self # 0 /\ Self.cls = "SpleeterAudioSeparator"
IsDemucs == fr.self # 0 /\ Self.cls = "DemucsAudioSeparator"
Range(q) == {q[i] : i \in DOMAIN q}
Prefixes(c) == {SubSeq(c, 1, k) : k \in 1..Len(c)}
Song == <<"s","o","n","g">>
DotRaw == <<".","r","a","w">>

\* C1: when the input path does not exist at the time separate is entered, on
\* either variant the call returns without raising, makes no directory, never
\* constructs or invokes the wrapped backend, and leaves the filesystem as it
\* found it.
C1_MissingInputNoEffect ==
    (fr.self # 0 /\ pc # "sep_check" /\ ~Exists(fr.fs0, fr.input)) =>
        /\ pc = "done"
        /\ raised = "none"
        /\ fs = fr.fs0
        /\ ~fr.inst
        /\ Ops \cap BackendOps = {}

C1_Witness ==
    /\ pc = "done"
    /\ IsSpleeter
    /\ fr.input = GoneMp3
    /\ ~Exists(fs, fr.output)
    /\ log[Len(log)].msg = "Input audio file not found"

\* C4: a run of main on a recognised tool holds a separator of that tool's
\* class whose config is of that tool's config class with the documented
\* default model name; separator and config are objects that did not exist
\* before the run and the config belongs to no other separator.
C4_MatchedFreshPair ==
    (fr.via = "main" /\ fr.self # 0) =>
        LET cfg == heap[Self.config]
        IN  /\ fr.tool = Spleeter =>
                /\ Self.cls = "SpleeterAudioSeparator"
                /\ cfg.cls = "SpleeterConfig"
                /\ cfg.model_name = <<"s","p","l","e","e","t","e","r",":","5","s","t","e","m","s">>
            /\ fr.tool = Demucs =>
                /\ Self.cls = "DemucsAudioSeparator"
                /\ cfg.cls = "DemucsConfig"
                /\ cfg.model_name = <<"h","t","d","e","m","u","c","s">>
            /\ fr.tool \in {Spleeter, Demucs}
            /\ fr.self > fr.h0
            /\ Self.config > fr.h0
            /\ Self.config # fr.self
            /\ \A o \in DOMAIN heap : (o # fr.self) => heap[o].config # Self.config

C4_Witness ==
    /\ pc = "done"
    /\ fr.via = "main"
    /\ fr.tool = Demucs
    /\ fr.h0 > 0
    /\ \E o \in 1..fr.h0 : heap[o].cls = "DemucsAudioSeparator"

\* the base name the output convention documents for each input of the model
DocumentedBase ==
    (SongMp3 :> Song) @@ (InSongWav :> Song) @@ (InDRaw :> DotRaw)

\* <D>/<M>/<base>/<s>.wav as a resolved path
DocumentedStemPath(d, m, input, stem) ==
    Split(d) \o <<m, DocumentedBase[input], stem \o DotWav>>

FirstIndex(op) ==
    IF op \in Ops THEN CHOOSE i \in DOMAIN trace :
                            trace[i].op = op /\ \A j \in 1..(i - 1) : trace[j].op # op
    ELSE 0

\* C5: a waveform separation that ran to completion wrote exactly one file per
\* stem name, at <D>/<M>/<input base name>/<stem>.wav, changed no other file,
\* and the directory <D>/<M>/<base name> with all its ancestors exists and was
\* made, when it was missing, before the first stem was written.
C5_StemFilesExactly ==
    (Completed /\ IsDemucs) =>
        LET expected == {DocumentedStemPath(fr.output, Model, fr.input, st) :
                            st \in Range(fr.sources)}
            dir == Split(fr.output) \o <<Model, DocumentedBase[fr.input]>>
        IN  /\ fr.saved = expected
            /\ Cardinality(expected) = Len(fr.sources)
            /\ \A st \in Range(fr.sources) :
                  LET c == DocumentedStemPath(fr.output, Model, fr.input, st)
                  IN  /\ c \in DOMAIN fs
                      /\ fs[c] = FileEntry(StemAudio(fr.input, Model, st))
            /\ \A c \in DOMAIN fs :
                  (fs[c].kind = "file" /\ (c \notin DOMAIN fr.fs0 \/ fr.fs0[c] # fs[c]))
                      => c \in expected
            /\ \A c \in DOMAIN fr.fs0 : c \in DOMAIN fs /\ fs[c].kind = fr.fs0[c].kind
            /\ \A a \in Prefixes(dir) : IsDir(fs, a)
            /\ (dir \notin DOMAIN fr.fs0) =>
                  /\ "makedirs" \in Ops
                  /\ FirstIndex("makedirs") < FirstIndex("save_audio")

C5_Witness ==
    /\ Completed
    /\ IsDemucs
    /\ fr.via = "main"
    /\ fr.input = SongMp3
    /\ fr.sources = <<Vocals, Drums>>
    /\ fr.saved = {<<<<"o","u","t","p","u","t","_","s","t","e","m","s">>, Demucs,
                     Htdemucs, Song, <<"v","o","c","a","l","s",".","w","a","v">> >>,
                   <<<<"o","u","t","p","u","t","_","s","t","e","m","s">>, Demucs,
                     Htdemucs, Song, <<"d","r","u","m","s",".","w","a","v">> >>}

\* the exception classes that are I/O faults (OSError and its subclasses)
IOFaults == {"OSError", "FileNotFoundError", "FileExistsError",
             "NotADirectoryError", "IsADirectoryError", "PermissionError"}

SaveAttempts == {i \in DOMAIN trace : trace[i].op = "save_audio"}

\* C6: when the write of the k-th stem (k >= 2) raises an I/O fault, the k-1
\* stems written before it are still on disk with their audio, nothing is
\* written for a later stem, the fault is logged and separate returns normally.
C6_PartialStemsKept ==
    (pc = "done" /\ IsDemucs /\ fr.i >= 2 /\ fr.exc \in IOFaults) =>
        /\ raised = "none"
        /\ log[Len(log)].level = "error"
        /\ log[Len(log)].exc = fr.exc
        /\ \A j \in 1..(fr.i - 1) :
              LET c == Resolve(StemOutputPath(fr.song, fr.sources[j]))
              IN  /\ c \in DOMAIN fs
                  /\ fs[c] = FileEntry(StemAudio(fr.input, Model, fr.sources[j]))
                  /\ c \in fr.saved
        /\ Cardinality(fr.saved) = fr.i - 1
        /\ Cardinality(SaveAttempts) = fr.i
        /\ \A j \in (fr.i + 1)..Len(fr.sources) :
              LET c == Resolve(StemOutputPath(fr.song, fr.sources[j]))
              IN  /\ c \notin fr.saved
                  /\ (c \in DOMAIN fs) => (c \in DOMAIN fr.fs0 /\ fs[c] = fr.fs0[c])

C6_Witness ==
    /\ pc = "done"
    /\ IsDemucs
    /\ fr.sources = <<Drums, Bass, Vocals>>
    /\ fr.i = 2
    /\ fr.exc = "PermissionError"
    /\ raised = "none"
    /\ Resolve(StemOutputPath(fr.song, Drums)) \in DOMAIN fs
    /\ Resolve(StemOutputPath(fr.song, Bass)) \notin DOMAIN fs

SameArguments ==
    /\ prev.valid
    /\ fr.self # 0
    /\ prev.cls = Self.cls
    /\ prev.model = Model
    /\ prev.input = fr.input
    /\ prev.output = fr.output

\* C7: separate invoked a second time with the arguments of a call that ran
\* to completion, the backend returning what it returned before and nothing
\* failing, runs to completion too (the directory that now exists is no
\* failure) and leaves the filesystem exactly as the first call left it.
\* (The input files lie outside the output folders, so a call does not
\* overwrite what it reads.)
C7_Idempotent ==
    (pc = "done" /\ SameArguments /\ ~fr.injected
        /\ (IsDemucs => fr.sources = prev.sources)) =>
        /\ Completed
        /\ raised = "none"
        /\ fs = prev.fs

C7_Witness ==
    /\ Completed
    /\ SameArguments
    /\ IsDemucs
    /\ fr.output = Old
    /\ fr.input = SongMp3
    /\ fr.sources = prev.sources
    /\ fs = prev.fs
    /\ fs # fr.fs0 \/ fr.saved # {}

\* C8: for the spectrogram separator with an existing input and a destination
\* that does not exist, the destination and its missing ancestors are made
\* before the wrapped library is constructed or asked to separate, and whatever
\* the library raises leaves separate as raised, the directory staying.
C8_DirBeforeLibrary ==
    (IsSpleeter /\ Exists(fr.fs0, fr.input) /\ ~Exists(fr.fs0, fr.output)) =>
        /\ (pc \in {"sp_construct", "sp_run"} \/ Ops \cap {"construct", "separate_to_file"} # {}) =>
              /\ \A a \in Prefixes(Resolve(fr.output)) : IsDir(fs, a)
              /\ "makedirs" \in Ops
              /\ \A i \in DOMAIN trace :
                    trace[i].op \in {"construct", "separate_to_file"}
                        => FirstIndex("makedirs") < i
        /\ (pc = "done" /\ fr.exc # "none"
                /\ trace[Len(trace)].op \in {"construct", "separate_to_file"}) =>
              /\ raised = fr.exc
              /\ log[Len(log)].level # "error"
              /\ IsDir(fs, Resolve(fr.output))

C8_Witness ==
    /\ pc = "done"
    /\ IsSpleeter
    /\ fr.via = "main"
    /\ fr.input = SongMp3
    /\ ~Exists(fr.fs0, fr.output)
    /\ Len(Resolve(fr.output)) = 2
    /\ Parent(Resolve(fr.output)) \notin DOMAIN fr.fs0
    /\ trace[Len(trace)].op = "separate_to_file"
    /\ raised = "RuntimeError"
    /\ IsDir(fs, Resolve(fr.output))

\* the categories the waveform separator contains, subclasses included
Contained == {"RuntimeError", "NotImplementedError", "ValueError", "UnicodeError"}
                \cup IOFaults

\* C9: in the waveform separator a fault raised at any step after the
\* existence check is logged and followed by a normal return exactly when it is
\* a computation, invalid-value or I/O fault; any other fault leaves separate.
C9_ContainedByCategory ==
    (pc = "done" /\ IsDemucs /\ fr.exc # "none") =>
        /\ (fr.exc \in Contained) <=>
              /\ raised = "none"
              /\ log[Len(log)].level = "error"
              /\ log[Len(log)].exc = fr.exc
        /\ (fr.exc \notin Contained) =>
              /\ raised = fr.exc
              /\ \A i \in DOMAIN log : log[i].level # "error"

C9_Witness ==
    /\ pc = "done"
    /\ IsDemucs
    /\ fr.exc = "KeyError"
    /\ raised = "KeyError"
    /\ trace[Len(trace)].op = "save_audio"
    /\ fr.saved # {}

Recognised == {Spleeter, Demucs}

\* the exception classes that report an invalid argument
InvalidArgument == {"ValueError", "KeyError", "LookupError"}

\* C2: for a tool that is neither spleeter nor demucs, selection ends in an
\* invalid-argument error raised to the caller, no config and no separator
\* having been constructed and separate never entered.
C2_UnrecognisedRaises ==
    (pc = "done" /\ fr.via = "main" /\ fr.tool \notin Recognised) =>
        /\ raised \in InvalidArgument
        /\ Len(heap) = fr.h0
        /\ fr.self = 0
        /\ trace = << >>

\* C3: a run of the entry point on a recognised tool that completes exits with
\* status zero, and a run on an unrecognised tool exits with a status other
\* than zero.
C3_ExitStatusDistinguishes ==
    (pc = "done" /\ fr.via = "main") =>
        /\ (fr.tool \in Recognised /\ Completed) => exit = 0
        /\ (fr.tool \notin Recognised) => exit > 0

\* the directory the call writes into
WriteTarget == IF IsSpleeter THEN fr.output ELSE fr.song

\* C10: whenever a stem write, or the delegated write of the spectrogram
\* library, has just been attempted, the location written into is a directory.
C10_WriteTargetIsDirectory ==
    (trace # << >> /\ trace[Len(trace)].op \in {"save_audio", "separate_to_file"}) =>
        IsDir(fs, Resolve(WriteTarget))

====
